---- MODULE Spec2Model ----
(***************************************************************************)
(* Finite-field arithmetic (src/src/num/fp.rs) and the number-theoretic    *)
(* transforms built on it (src/src/ntt/fft.rs, src/src/ntt/dft.rs).        *)
(*                                                                         *)
(* A u64 is a natural number below 2^64.  TLC's integers are 32 bits wide, *)
(* so a u64 is held as its little-endian digits in radix 2^15, without     *)
(* leading zero digits (0 is <<>>, 5 is <<5>>, 2^15 is <<0, 1>>).  The     *)
(* Big* operators are exact arithmetic on such digit sequences of any      *)
(* length; the U64* operators are Rust's u64 operators on top of them:     *)
(* a result that does not fit 64 bits panics when the build checks         *)
(* overflow (debug profile) and wraps modulo 2^64 when it does not         *)
(* (release profile).                                                      *)
(***************************************************************************)
EXTENDS Integers, Sequences, FiniteSets, TLC

VARIABLES
    overflow_checks,  \* the build profile: TRUE = overflow panics, FALSE = it wraps
    fp,               \* what Fp::new returned: the field context, Err, a panic; or not called yet
    call,             \* the last call: the function and its arguments
    ret,              \* what the last call returned
    arr               \* the input array the running transform pipeline started from

vars == <<overflow_checks, fp, call, ret, arr>>

-----------------------------------------------------------------------------
(* Exact natural-number arithmetic on digit sequences *)

Radix == 2 ^ 15

Dig(a, i) == IF i <= Len(a) THEN a[i] ELSE 0

RECURSIVE Trim(_)
Trim(a) ==
    IF Len(a) > 0 /\ a[Len(a)] = 0 THEN Trim(SubSeq(a, 1, Len(a) - 1)) ELSE a

\* a native number (below 2^31) as digits
FromNat(n) ==
    IF n < Radix
    THEN (IF n = 0 THEN <<>> ELSE <<n>>)
    ELSE Trim(<<n % Radix, (n \div Radix) % Radix, n \div (Radix * Radix)>>)

\* the digits of a number below 2^30 as a native number
ToNat(a) == Dig(a, 1) + Radix * Dig(a, 2)

RECURSIVE CmpFrom(_, _, _)
CmpFrom(a, b, i) ==
    IF i = 0 THEN 0
    ELSE IF a[i] # b[i] THEN (IF a[i] < b[i] THEN -1 ELSE 1)
    ELSE CmpFrom(a, b, i - 1)

BigCmp(a, b) ==
    IF Len(a) # Len(b)
    THEN (IF Len(a) < Len(b) THEN -1 ELSE 1)
    ELSE CmpFrom(a, b, Len(a))

BigLt(a, b) == BigCmp(a, b) < 0

BigLe(a, b) == BigCmp(a, b) <= 0

RECURSIVE AddFrom(_, _, _, _)
AddFrom(a, b, i, c) ==
    IF i > Len(a) /\ i > Len(b)
    THEN (IF c = 0 THEN <<>> ELSE <<c>>)
    ELSE <<(Dig(a, i) + Dig(b, i) + c) % Radix>>
             \o AddFrom(a, b, i + 1, (Dig(a, i) + Dig(b, i) + c) \div Radix)

BigAdd(a, b) == AddFrom(a, b, 1, 0)

RECURSIVE SubFrom(_, _, _, _)
SubFrom(a, b, i, br) ==
    IF i > Len(a) THEN <<>>
    ELSE IF a[i] - Dig(b, i) - br < 0
    THEN <<a[i] - Dig(b, i) - br + Radix>> \o SubFrom(a, b, i + 1, 1)
    ELSE <<a[i] - Dig(b, i) - br>> \o SubFrom(a, b, i + 1, 0)

\* a - b, for a >= b
BigSub(a, b) == Trim(SubFrom(a, b, 1, 0))

\* the digits of a * d + c * Radix^(i-1) from digit i on, d a digit
RECURSIVE MulDigFrom(_, _, _, _)
MulDigFrom(a, d, i, c) ==
    IF i > Len(a)
    THEN (IF c = 0 THEN <<>> ELSE <<c>>)
    ELSE <<(a[i] * d + c) % Radix>> \o MulDigFrom(a, d, i + 1, (a[i] * d + c) \div Radix)

RECURSIVE MulFrom(_, _, _)
MulFrom(a, b, j) ==
    IF j > Len(b) THEN <<>>
    ELSE BigAdd(MulDigFrom(a, b[j], 1, 0), <<0>> \o MulFrom(a, b, j + 1))

BigMul(a, b) ==
    IF Len(a) <= 1 /\ Len(b) <= 1
    THEN FromNat(Dig(a, 1) * Dig(b, 1))
    ELSE Trim(MulFrom(a, b, 1))

\* division by a native divisor d, 0 < d < 2^16, from digit i of a down; r is the
\* remainder and q the quotient digits so far
RECURSIVE ShortDiv(_, _, _, _, _)
ShortDiv(a, d, i, r, q) ==
    IF i = 0 THEN [q |-> Trim(q), r |-> FromNat(r)]
    ELSE ShortDiv(a, d, i - 1, (r * Radix + a[i]) % d, <<(r * Radix + a[i]) \div d>> \o q)

\* the largest digit q with d * q <= cur, found bit by bit from 2^bit down
RECURSIVE QuotDigit(_, _, _, _)
QuotDigit(cur, d, bit, acc) ==
    IF bit < 0 THEN acc
    ELSE IF BigLe(MulDigFrom(d, acc + 2 ^ bit, 1, 0), cur)
    THEN QuotDigit(cur, d, bit - 1, acc + 2 ^ bit)
    ELSE QuotDigit(cur, d, bit - 1, acc)

\* one digit of the long division: qd is the quotient digit of cur
LongDivSub(d, q, cur, qd) ==
    [q |-> <<qd>> \o q, r |-> BigSub(cur, MulDigFrom(d, qd, 1, 0))]

LongDivDigit(d, q, cur) == LongDivSub(d, q, cur, QuotDigit(cur, d, 14, 0))

\* hi is the quotient and remainder of the digits above digit
LongDivStep(digit, d, hi) == LongDivDigit(d, hi.q, Trim(<<digit>> \o hi.r))

\* schoolbook long division of the digits i .. Len(a) of a by the digits d
RECURSIVE LongDiv(_, _, _)
LongDiv(a, d, i) ==
    IF i > Len(a) THEN [q |-> <<>>, r |-> <<>>]
    ELSE LongDivStep(a[i], d, LongDiv(a, d, i + 1))

TrimQuotient(s) == [q |-> Trim(s.q), r |-> s.r]

\* quotient and remainder of a by d, for d # 0
BigDivMod(a, d) ==
    IF BigLt(a, d) THEN [q |-> <<>>, r |-> a]
    ELSE IF Len(d) <= 2 /\ ToNat(d) < 65536
    THEN ShortDiv(a, ToNat(d), Len(a), 0, <<>>)
    ELSE TrimQuotient(LongDiv(a, d, 1))

BigDiv(a, d) == BigDivMod(a, d).q

BigMod(a, d) == BigDivMod(a, d).r

\* 2^s as digits
BigPow2(s) == [i \in 1..((s \div 15) + 1) |-> IF i = (s \div 15) + 1 THEN 2 ^ (s % 15) ELSE 0]

-----------------------------------------------------------------------------
(* Rust's u64 operators.  Panic stands for "this evaluation has unwound":    *)
(* every operator that is handed it stays panicked.                          *)

Panic == <<-1>>

Zero == <<>>

One == <<1>>

Two == <<2>>

\* u64::MAX = 2^64 - 1
U64Max == <<32767, 32767, 32767, 32767, 15>>

Fits64(x) == Len(x) <= 4 \/ (Len(x) = 5 /\ x[5] < 16)

\* x modulo 2^64: the low 64 bits
Low64(x) ==
    Trim([i \in 1..(IF Len(x) < 5 THEN Len(x) ELSE 5) |-> IF i = 5 THEN x[5] % 16 ELSE x[i]])

\* an arithmetic result: a panic under overflow checks, wrapped without them
Overflowing(x) ==
    IF Fits64(x) THEN x
    ELSE IF overflow_checks THEN Panic
    ELSE Low64(x)

U64Add(a, b) ==
    IF a = Panic \/ b = Panic THEN Panic ELSE Overflowing(BigAdd(a, b))

U64Sub(a, b) ==
    IF a = Panic \/ b = Panic THEN Panic
    ELSE IF BigLe(b, a) THEN BigSub(a, b)
    ELSE IF overflow_checks THEN Panic
    ELSE BigSub(BigAdd(a, BigPow2(64)), b)

U64Mul(a, b) ==
    IF a = Panic \/ b = Panic THEN Panic ELSE Overflowing(BigMul(a, b))

\* a % d: a zero divisor panics in every profile
U64Rem(a, d) ==
    IF a = Panic \/ d = Panic \/ d = Zero THEN Panic ELSE BigMod(a, d)

U64Div(a, d) ==
    IF a = Panic \/ d = Panic \/ d = Zero THEN Panic ELSE BigDiv(a, d)

\* a >> s and a << s, s a usize below 64: bits shifted out are lost in every profile
U64Shr(a, s) == IF a = Panic THEN Panic ELSE BigDiv(a, BigPow2(s))

U64Shl(a, s) == IF a = Panic THEN Panic ELSE Low64(BigMul(a, BigPow2(s)))

-----------------------------------------------------------------------------
(* src/src/num/fp.rs *)

\* Result values: Ok of a u64, of a Vec<u64> and of a (usize, Vec<u64>),
\* Err(message), and a panic (no value is returned)
Ok(v) == [tag |-> "Ok", val |-> v]

OkVec(Y) == [tag |-> "Ok", vec |-> Y]

OkPair(i, res) == [tag |-> "Ok", i |-> i, res |-> res]

Err(msg) == [tag |-> "Err", msg |-> msg]

Panicked == [tag |-> "panic"]

\* the message of Fp::new (the source writes p between backquotes)
ErrNotPrime == "p should be prime number."

ErrTwoAdicity == "The prime p does not have enough factors of 2 in (p - 1)."

\* the trial divisors of factorize, in order: 2, 3, 5, 7, 9, ...
candidate(idx) == IF idx = 0 THEN Two ELSE FromNat(2 * idx + 1)

\* while x % p == 0 { cnt += 1; x /= p; }; dm is x divided by p
RECURSIVE strip(_, _, _)
strip_next(x, p, cnt, dm) ==
    IF dm.r = Zero THEN strip(dm.q, p, cnt + 1) ELSE [x |-> x, cnt |-> cnt]

strip(x, p, cnt) == strip_next(x, p, cnt, BigDivMod(x, p))

\* if cnt > 0 { res.push((p, cnt)); }, with x as the while loop left it
factorize_push(st, p, s) ==
    [st EXCEPT !.x = s.x,
               !.res = IF s.cnt > 0 THEN Append(st.res, <<p, s.cnt>>) ELSE st.res]

\* if p * p > x { break; } and the rest of the turn, pp being p * p
factorize_turn(st, p, pp) ==
    IF pp = Panic THEN [st EXCEPT !.done = TRUE, !.panic = TRUE]
    ELSE IF BigLt(st.x, pp) THEN [st EXCEPT !.done = TRUE]
    ELSE factorize_push(st, p, strip(st.x, p, 0))

factorize_divisor(st, p) == factorize_turn(st, p, U64Mul(p, p))

\* one turn of factorize's for loop, for the trial divisor of index idx
factorize_step(st, idx) == factorize_divisor(st, candidate(idx))

\* the loop's turns for the indices lo .. hi-1, in order, up to the break
RECURSIVE factorize_range(_, _, _)
factorize_range(st, lo, hi) ==
    IF st.done \/ lo >= hi THEN st
    ELSE IF hi = lo + 1 THEN factorize_step(st, lo)
    ELSE factorize_range(factorize_range(st, lo, (lo + hi) \div 2), (lo + hi) \div 2, hi)

\* the loop from index lo on, run in stretches of doubling length
RECURSIVE factorize_from(_, _, _)
factorize_from(st, lo, len) ==
    IF st.done THEN st
    ELSE factorize_from(factorize_range(st, lo, lo + len), lo + len, 2 * len)

\* if x > 1 { res.push((x, 1)); } res
factorize_end(st) ==
    IF st.panic THEN <<Panic>>
    ELSE IF BigLt(One, st.x) THEN Append(st.res, <<st.x, 1>>)
    ELSE st.res

\* the prime factorization [(prime, exponent), ...] of x; <<Panic>> when it panics
factorize(x) ==
    IF x = Panic THEN <<Panic>>
    ELSE factorize_end(factorize_from([x |-> x, res |-> <<>>, done |-> FALSE, panic |-> FALSE], 0, 1))

normalize(p, a) ==
    IF p = Panic \/ a = Panic THEN Panic
    ELSE IF BigLt(a, p) THEN a
    ELSE U64Rem(a, p)

\* if res >= p { res -= p; } res
add_reduce(p, res) ==
    IF res = Panic THEN Panic
    ELSE IF BigLe(p, res) THEN U64Sub(res, p)
    ELSE res

_add(p, a, b) == add_reduce(p, U64Add(normalize(p, a), normalize(p, b)))

_neg(p, a) == U64Sub(p, normalize(p, a))

_sub(p, a, b) == _add(p, normalize(p, a), _neg(p, normalize(p, b)))

_mul(p, a, b) == U64Rem(U64Mul(normalize(p, a), normalize(p, b)), p)

\* the while loop of _pow
RECURSIVE pow_loop(_, _, _, _)
pow_loop(p, a, b, res) ==
    IF a = Panic \/ res = Panic THEN Panic
    ELSE IF b = Zero THEN res
    ELSE pow_loop(p, _mul(p, a, a), U64Shr(b, 1),
                  IF Dig(b, 1) % 2 = 1 THEN _mul(p, res, a) ELSE res)

_pow(p, a, b) ==
    IF b = Panic THEN Panic ELSE pow_loop(p, normalize(p, a), b, One)

_inv(p, a) == _pow(p, a, U64Sub(p, Two))

\* _pow(p, x, (p - 1) / pi) != 1 for the i-th factor, r being the power, and on to
\* the next factor
RECURSIVE is_ok(_, _, _, _)
is_ok_next(p, factors, x, i, r) ==
    IF r = Panic THEN "panic"
    ELSE IF r = One THEN "false"
    ELSE is_ok(p, factors, x, i + 1)

\* factors.iter().all(|&(pi, _)| _pow(p, x, (p - 1) / pi) != 1), from the i-th factor on
is_ok(p, factors, x, i) ==
    IF i > Len(factors) THEN "true"
    ELSE is_ok_next(p, factors, x, i, _pow(p, x, U64Div(U64Sub(p, One), factors[i][1])))

\* find's verdict ok on x, and on to x + 1
RECURSIVE find_from(_, _, _)
find_next(p, factors, x, ok) ==
    IF ok = "panic" THEN Panic
    ELSE IF ok = "true" THEN x
    ELSE find_from(p, factors, BigAdd(x, One))

\* (x..p).find(|x| is_ok(*x)).unwrap()
find_from(p, factors, x) ==
    IF ~BigLt(x, p) THEN Panic
    ELSE find_next(p, factors, x, is_ok(p, factors, x, 1))

find_root(p, factors) == find_from(p, factors, One)

\* Ok(Self { p, root, rinv: Self::_inv(p, root), k, m: (p - 1) >> k })
new_fields(p, root, rinv, k, m) ==
    IF rinv = Panic \/ m = Panic THEN Panicked
    ELSE [tag |-> "Ok", p |-> p, root |-> root, rinv |-> rinv, k |-> k, m |-> m]

\* let k = factors[0].1 as usize, which panics on an empty factors, and on
new_k(p, pm1, factors, root) ==
    IF root = Panic \/ Len(factors) = 0 THEN Panicked
    ELSE new_fields(p, root, _inv(p, root), factors[1][2], U64Shr(pm1, factors[1][2]))

\* from let root = Self::find_root(p, &factors) on
new_root(p, pm1, factors) ==
    IF factors = <<Panic>> THEN Panicked
    ELSE new_k(p, pm1, factors, find_root(p, factors))

\* from let factors = Fp::factorize(p - 1) on
new_factors(p, pm1) ==
    IF pm1 = Panic THEN Panicked ELSE new_root(p, pm1, factorize(pm1))

new_checked(p, fs) ==
    IF fs = <<Panic>> THEN Panicked
    ELSE IF Len(fs) > 1 THEN Err(ErrNotPrime)
    ELSE new_factors(p, U64Sub(p, One))

new(p) == new_checked(p, factorize(p))

add(self, a, b) == _add(self.p, a, b)

neg(self, a) == _neg(self.p, a)

sub(self, a, b) == _sub(self.p, a, b)

mul(self, a, b) == _mul(self.p, a, b)

\* b is a usize
pow(self, a, b) == _pow(self.p, a, FromNat(b))

inv(self, a) == _inv(self.p, a)

\* a u64 that panicked makes the call panic
Returned(w) == IF w = Panic THEN Panicked ELSE Ok(w)

\* a root_pow2m that refuses the order k too
root_pow2m_below_k(self, a) ==
    IF a >= self.k THEN Err(ErrTwoAdicity)
    ELSE Returned(_pow(self.p, self.root, U64Shl(self.m, self.k - a)))

\* a is a usize
root_pow2m(self, a) ==
    IF a > self.k THEN Err(ErrTwoAdicity)
    ELSE Returned(_pow(self.p, self.root, U64Shl(self.m, self.k - a)))

-----------------------------------------------------------------------------
(* src/src/ntt/fft.rs and src/src/ntt/dft.rs.  A Vec<u64> is a sequence of u64. *)

\* a returned u64 or Vec<u64>; the call has panicked when a u64 in it has
Value(v) == IF v = Panic THEN Panicked ELSE [tag |-> "val", val |-> v]

HasPanic(Y) == \E i \in 1..Len(Y) : Y[i] = Panic

VecValue(Y) == IF HasPanic(Y) THEN Panicked ELSE [tag |-> "val", vec |-> Y]

VecOk(Y) == IF HasPanic(Y) THEN Panicked ELSE OkVec(Y)

\* while n_ < n { i += 1; n_ *= 2; }: the pair (i, n_) the loop ends with
\* (dft.rs has the same loop)
RECURSIVE extend_loop(_, _, _)
extend_loop(n, i, n_) ==
    IF n_ < n THEN extend_loop(n, i + 1, n_ * 2) ELSE <<i, n_>>

\* the Vec<u64> an iterator is collected into
collect(Y) == SubSeq(Y, 1, Len(Y))

\* an extend_array that appends n_ zeros, not n_ - n
FFT_extended_overpadded(self, array, l) ==
    IF l[1] > self.k THEN Err(ErrTwoAdicity)
    ELSE OkPair(l[1], array \o [j \in 1..l[2] |-> Zero])

\* from if i > self.0.k on, l being (i, n_)
FFT_extended(self, array, l) ==
    IF l[1] > self.k THEN Err(ErrTwoAdicity)
    ELSE OkPair(l[1], array \o [j \in 1..(l[2] - Len(array)) |-> Zero])

FFT_extend_array(self, array) == FFT_extended(self, array, extend_loop(Len(array), 0, 1))

DFT_extended(self, array, l) ==
    IF l[1] > self.k THEN Err(ErrTwoAdicity)
    ELSE OkPair(l[1], array \o [j \in 1..(l[2] - Len(array)) |-> Zero])

DFT_extend_array(self, array) == DFT_extended(self, array, extend_loop(Len(array), 0, 1))

\* Y_even.zip(Y_odd).flat_map(|(e, o)| [e, o]).collect()
merge(Y_even, Y_odd) ==
    collect([i \in 1..(2 * Len(Y_even)) |->
                IF i % 2 = 1 THEN Y_even[(i + 1) \div 2] ELSE Y_odd[i \div 2]])

\* the two halves: indices are 1-based here, so w^i is pow(w, i - 1)
X_even(self, X, h) == collect([i \in 1..h |-> add(self, X[i], X[i + h])])

X_odd(self, X, w, h) ==
    collect([i \in 1..h |-> mul(self, sub(self, X[i], X[i + h]), pow(self, w, i - 1))])

\* from let new_w = self.0.pow(w, 2) on
RECURSIVE fft_core(_, _, _)
fft_halves(self, X, w, new_w) ==
    IF new_w = Panic THEN [i \in 1..Len(X) |-> Panic]
    ELSE merge(fft_core(self, X_even(self, X, Len(X) \div 2), new_w),
               fft_core(self, X_odd(self, X, w, Len(X) \div 2), new_w))

\* X has 1 or more elements
fft_core(self, X, w) ==
    IF Len(X) = 1 THEN X ELSE fft_halves(self, X, w, pow(self, w, 2))

\* (0..n).map(|j| mul(X[j], pow(w, i * j))).fold(0, add), from the j-th element
\* on, acc being the sum so far
RECURSIVE dft_fold(_, _, _, _, _, _)
dft_fold(self, X, w, i, j, acc) ==
    IF acc = Panic THEN Panic
    ELSE IF j > Len(X) THEN acc
    ELSE dft_fold(self, X, w, i, j + 1,
                  add(self, acc, mul(self, X[j], pow(self, w, (i - 1) * (j - 1)))))

dft_core(self, X, w) == collect([i \in 1..Len(X) |-> dft_fold(self, X, w, i, 1, Zero)])

\* res.iter_mut().for_each(|v| *v = mul(*v, inv_n)); Ok(res)
scaled(self, res, inv_n) ==
    IF inv_n = Panic THEN Panicked
    ELSE VecOk(collect([i \in 1..Len(res) |-> mul(self, res[i], inv_n)]))

\* Ok(self.fft_core(X, w)); the ? operator hands an Err back as the result
fft_rotated(self, X, w) ==
    IF w.tag # "Ok" THEN w ELSE VecOk(fft_core(self, X, w.val))

\* from let w = self.0.root_pow2m(i)? on, e being what extend_array returned
fft_extended(self, e) ==
    IF e.tag # "Ok" THEN e ELSE fft_rotated(self, e.res, root_pow2m(self, e.i))

fft(self, X) == fft_extended(self, FFT_extend_array(self, X))

\* from let n = res.len() on
ifft_scaled(self, res) == scaled(self, res, inv(self, FromNat(Len(res))))

\* from let mut res = self.fft_core(F, winv) on
ifft_inverted(self, F, winv) ==
    IF winv = Panic THEN Panicked ELSE ifft_scaled(self, fft_core(self, F, winv))

\* from let winv = self.0.inv(w) on
ifft_rotated(self, F, w) ==
    IF w.tag # "Ok" THEN w ELSE ifft_inverted(self, F, inv(self, w.val))

ifft_extended(self, e) ==
    IF e.tag # "Ok" THEN e ELSE ifft_rotated(self, e.res, root_pow2m(self, e.i))

ifft(self, F) == ifft_extended(self, FFT_extend_array(self, F))

dft_rotated(self, X, w) ==
    IF w.tag # "Ok" THEN w ELSE VecOk(dft_core(self, X, w.val))

dft_extended(self, e) ==
    IF e.tag # "Ok" THEN e ELSE dft_rotated(self, e.res, root_pow2m(self, e.i))

dft(self, X) == dft_extended(self, DFT_extend_array(self, X))

idft_scaled(self, res) == scaled(self, res, inv(self, FromNat(Len(res))))

idft_inverted(self, F, winv) ==
    IF winv = Panic THEN Panicked ELSE idft_scaled(self, dft_core(self, F, winv))

idft_rotated(self, F, w) ==
    IF w.tag # "Ok" THEN w ELSE idft_inverted(self, F, inv(self, w.val))

idft_extended(self, e) ==
    IF e.tag # "Ok" THEN e ELSE idft_rotated(self, e.res, root_pow2m(self, e.i))

idft(self, F) == idft_extended(self, DFT_extend_array(self, F))

-----------------------------------------------------------------------------
(* The inputs the calls are made with *)

MaxModulus == 13

MaxScalar == 3

MaxExp == 3

MaxElem == 3

MaxLen == 2

MaxRampLen == 8

\* 4294967311 = 2^32 + 15, the smallest prime above 2^32
P32 == <<15, 0, 4>>

\* the moduli Fp::new is called with: 0, 1, 2, ... (primes, prime powers, other
\* composites) and a prime of more than 32 bits
Moduli == {FromNat(n) : n \in 0..MaxModulus} \cup {P32}

\* the scalars the arithmetic is called with: small ones, the ones around p, u64::MAX
Scalars(p) ==
    {FromNat(n) : n \in 0..MaxScalar} \cup {BigSub(p, One), p, BigAdd(p, One), U64Max}

Elems == {FromNat(n) : n \in 0..MaxElem}

\* 1, 2, ..., n
Ramp(n) == [i \in 1..n |-> FromNat(i)]

\* the arrays: every short one over Elems, and the ramps up to MaxRampLen
Arrays ==
    UNION {[1..n -> Elems] : n \in 0..MaxLen} \cup {Ramp(n) : n \in 0..MaxRampLen}

\* the smallest i with 2^i >= n
Log2(n) == extend_loop(n, 0, 1)[1]

\* the arrays fft, ifft, dft and idft hand to a transform core: of length 2^i,
\* i <= k, here with every element in [0, p)
CoreArrays(self) ==
    {X \in Arrays : /\ Len(X) = 2 ^ Log2(Len(X))
                    /\ Log2(Len(X)) <= self.k
                    /\ \A j \in 1..Len(X) : BigLt(X[j], self.p)}

\* the rotation factors they hand over with it: w, what root_pow2m(log2 n)
\* returned, and its inverse
RotationsOf(self, w) ==
    IF w.tag = "Ok" THEN {x \in {w.val, inv(self, w.val)} : x # Panic} ELSE {}

Rotations(self, n) == RotationsOf(self, root_pow2m(self, Log2(n)))

-----------------------------------------------------------------------------
(* The calls *)

\* the call made last: its function, its arguments by their names (the name of
\* a usize says so) and, for a call made with what another one returned, that one
NoCall == [fn |-> "none", after |-> ""]

Called(fn, args) == [fn |-> fn, args |-> args, after |-> ""]

Init ==
    /\ overflow_checks \in BOOLEAN
    /\ fp = [tag |-> "none"]
    /\ call = NoCall
    /\ ret = [tag |-> "none"]
    /\ arr = <<>>

\* a context is there and no call is running
Idle == fp.tag = "Ok" /\ call.fn = "none"

\* what the next call is made with; a call is made when the context is idle
CallScalars == IF Idle THEN Scalars(fp.p) ELSE {}

CallOrders == IF Idle THEN 0..(fp.k + 1) ELSE {}

CallArrays == IF Idle THEN Arrays ELSE {}

CallCoreArrays == IF Idle THEN CoreArrays(fp) ELSE {}

\* let fp = Fp::new(p)
New(p) ==
    /\ fp.tag = "none"
    /\ fp' = new(p)
    /\ call' = Called("new", [p |-> p])
    /\ ret' = [tag |-> fp'.tag]
    /\ UNCHANGED <<overflow_checks, arr>>

Add(a, b) ==
    /\ Idle
    /\ call' = Called("add", [a |-> a, b |-> b])
    /\ ret' = Value(add(fp, a, b))
    /\ UNCHANGED <<overflow_checks, fp, arr>>

Neg(a) ==
    /\ Idle
    /\ call' = Called("neg", [a |-> a])
    /\ ret' = Value(neg(fp, a))
    /\ UNCHANGED <<overflow_checks, fp, arr>>

Sub(a, b) ==
    /\ Idle
    /\ call' = Called("sub", [a |-> a, b |-> b])
    /\ ret' = Value(sub(fp, a, b))
    /\ UNCHANGED <<overflow_checks, fp, arr>>

Mul(a, b) ==
    /\ Idle
    /\ call' = Called("mul", [a |-> a, b |-> b])
    /\ ret' = Value(mul(fp, a, b))
    /\ UNCHANGED <<overflow_checks, fp, arr>>

Pow(a, b) ==
    /\ Idle
    /\ call' = Called("pow", [a |-> a, b_usize |-> b])
    /\ ret' = Value(pow(fp, a, b))
    /\ UNCHANGED <<overflow_checks, fp, arr>>

Inv(a) ==
    /\ Idle
    /\ call' = Called("inv", [a |-> a])
    /\ ret' = Value(inv(fp, a))
    /\ UNCHANGED <<overflow_checks, fp, arr>>

RootPow2m(a) ==
    /\ Idle
    /\ call' = Called("root_pow2m", [a_usize |-> a])
    /\ ret' = root_pow2m(fp, a)
    /\ UNCHANGED <<overflow_checks, fp, arr>>

FftExtendArray(X) ==
    /\ Idle
    /\ call' = Called("FFT::extend_array", [array |-> X])
    /\ ret' = FFT_extend_array(fp, X)
    /\ UNCHANGED <<overflow_checks, fp, arr>>

DftExtendArray(X) ==
    /\ Idle
    /\ call' = Called("DFT::extend_array", [array |-> X])
    /\ ret' = DFT_extend_array(fp, X)
    /\ UNCHANGED <<overflow_checks, fp, arr>>

FftCore(X, w) ==
    /\ Idle
    /\ call' = Called("fft_core", [X |-> X, w |-> w])
    /\ ret' = VecValue(fft_core(fp, X, w))
    /\ UNCHANGED <<overflow_checks, fp, arr>>

DftCore(X, w) ==
    /\ Idle
    /\ call' = Called("dft_core", [X |-> X, w |-> w])
    /\ ret' = VecValue(dft_core(fp, X, w))
    /\ UNCHANGED <<overflow_checks, fp, arr>>

Fft(X) ==
    /\ Idle
    /\ call' = Called("fft", [array |-> X])
    /\ ret' = fft(fp, X)
    /\ arr' = X
    /\ UNCHANGED <<overflow_checks, fp>>

Ifft(X) ==
    /\ Idle
    /\ call' = Called("ifft", [array |-> X])
    /\ ret' = ifft(fp, X)
    /\ arr' = X
    /\ UNCHANGED <<overflow_checks, fp>>

Dft(X) ==
    /\ Idle
    /\ call' = Called("dft", [array |-> X])
    /\ ret' = dft(fp, X)
    /\ arr' = X
    /\ UNCHANGED <<overflow_checks, fp>>

Idft(X) ==
    /\ Idle
    /\ call' = Called("idft", [array |-> X])
    /\ ret' = idft(fp, X)
    /\ arr' = X
    /\ UNCHANGED <<overflow_checks, fp>>

\* let decoded = fft.ifft(&encoded), encoded being what fft has just returned
IfftOfFft ==
    /\ fp.tag = "Ok"
    /\ call.fn = "fft" /\ ret.tag = "Ok"
    /\ call' = [fn |-> "ifft", args |-> [array |-> ret.vec], after |-> "fft"]
    /\ ret' = ifft(fp, ret.vec)
    /\ UNCHANGED <<overflow_checks, fp, arr>>

IdftOfDft ==
    /\ fp.tag = "Ok"
    /\ call.fn = "dft" /\ ret.tag = "Ok"
    /\ call' = [fn |-> "idft", args |-> [array |-> ret.vec], after |-> "dft"]
    /\ ret' = idft(fp, ret.vec)
    /\ UNCHANGED <<overflow_checks, fp, arr>>

\* the caller is done with what the call returned; a panic has ended the process
Drop ==
    /\ call.fn # "none"
    /\ ret.tag # "panic"
    /\ call' = NoCall
    /\ ret' = [tag |-> "none"]
    /\ arr' = <<>>
    /\ UNCHANGED <<overflow_checks, fp>>

Next ==
    \/ \E p \in Moduli : New(p)
    \/ \E a, b \in CallScalars : Add(a, b) \/ Sub(a, b) \/ Mul(a, b)
    \/ \E a \in CallScalars : Neg(a) \/ Inv(a)
    \/ \E a \in CallScalars, b \in 0..MaxExp : Pow(a, b)
    \/ \E a \in CallOrders : RootPow2m(a)
    \/ \E X \in CallArrays : FftExtendArray(X) \/ DftExtendArray(X)
    \/ \E X \in CallArrays : Fft(X) \/ Ifft(X) \/ Dft(X) \/ Idft(X)
    \/ \E X \in CallCoreArrays : \E w \in Rotations(fp, Len(X)) : FftCore(X, w) \/ DftCore(X, w)
    \/ IfftOfFft
    \/ IdftOfDft
    \/ Drop

Spec == Init /\ [][Next]_vars

-----------------------------------------------------------------------------
(* What the claims speak of, in exact arithmetic *)

PrimeNat(n) == n >= 2 /\ \A d \in 2..(n - 1) : n % d # 0

\* trial division; the divisors up to 2^16 decide every p below 65537^2
IsPrime(p) ==
    IF Len(p) <= 1 THEN PrimeNat(ToNat(p))
    ELSE \A d \in 2..65536 : BigMod(p, FromNat(d)) # Zero

Primes == {p \in Moduli : IsPrime(p)}

\* a context built by Fp::new from a prime
PrimeField == fp.tag = "Ok" /\ fp.p \in Primes

\* the smallest i with 2^i >= n
CeilLog2(n) == CHOOSE i \in 0..n : 2 ^ i >= n /\ \A j \in 0..(i - 1) : 2 ^ j < n

\* X zero-padded to the next power-of-two length
Padded(X) == [j \in 1..(2 ^ CeilLog2(Len(X))) |-> IF j <= Len(X) THEN X[j] ELSE Zero]

\* X element-wise modulo p
Reduced(X, p) == [j \in 1..Len(X) |-> BigMod(X[j], p)]

InRange(X, p) == \A j \in 1..Len(X) : BigLt(X[j], p)

\* a^b mod p over the unbounded integers, by squaring; res is the product so far
RECURSIVE ExactPow(_, _, _, _)
ExactPow(p, a, b, res) ==
    IF BigLe(p, a) \/ BigLe(p, res) THEN ExactPow(p, BigMod(a, p), b, BigMod(res, p))
    ELSE IF b = Zero THEN res
    ELSE ExactPow(p, BigMul(a, a), BigDiv(b, Two),
                  IF Dig(b, 1) % 2 = 1 THEN BigMul(res, a) ELSE res)

\* w^(2^j) mod p
PowPow2(p, w, j) == ExactPow(p, w, BigPow2(j), One)

-----------------------------------------------------------------------------
(* The claims *)

\* C1: Round-trip.  In a field built by Fp::new from a prime p, fft and dft of a
\* sequence X of length n <= 2^k return Ok, and ifft of what fft returned (idft
\* of what dft returned) returns Ok with X zero-padded to the next power-of-two
\* length: equal element-wise modulo p, and exactly equal when every element of
\* X is in [0, p).
C1_RoundTrip ==
    /\ (PrimeField /\ call.fn \in {"fft", "dft"} /\ CeilLog2(Len(arr)) <= fp.k)
          => ret.tag = "Ok"
    /\ (PrimeField /\ call.fn \in {"ifft", "idft"} /\ call.after \in {"fft", "dft"})
          => /\ ret.tag = "Ok"
             /\ Reduced(ret.vec, fp.p) = Reduced(Padded(arr), fp.p)
             /\ InRange(arr, fp.p) => ret.vec = Padded(arr)

\* C2: Equivalence of cores.  In a prime field, for X of power-of-two length
\* n <= 2^k with elements in [0, p) and w = root_pow2m(log2 n) or its inverse,
\* dft_core(X, w) and fft_core(X, w) return the same sequence; hence dft(X) =
\* fft(X) and idft(X) = ifft(X).
C2_CoresAgree ==
    /\ (/\ PrimeField /\ call.fn = "fft_core"
        /\ call.args.X \in CoreArrays(fp)
        /\ call.args.w \in Rotations(fp, Len(call.args.X)))
          => ret = VecValue(dft_core(fp, call.args.X, call.args.w))
    /\ (/\ PrimeField /\ call.fn = "dft_core"
        /\ call.args.X \in CoreArrays(fp)
        /\ call.args.w \in Rotations(fp, Len(call.args.X)))
          => ret = VecValue(fft_core(fp, call.args.X, call.args.w))
    /\ (PrimeField /\ call.fn = "fft" /\ InRange(call.args.array, fp.p))
          => ret = dft(fp, call.args.array)
    /\ (PrimeField /\ call.fn = "ifft" /\ InRange(call.args.array, fp.p))
          => ret = idft(fp, call.args.array)

\* C3: Padding correctness.  For an input of length n whose smallest i with
\* 2^i >= n is at most k, extend_array returns (i, res): res has length 2^i,
\* res[j] = input[j] for j < n and res[j] = 0 for n <= j < 2^i; when n is a power
\* of two, res is the input unchanged.
C3_Padding ==
    (/\ call.fn \in {"FFT::extend_array", "DFT::extend_array"}
     /\ CeilLog2(Len(call.args.array)) <= fp.k)
       => /\ ret.tag = "Ok"
          /\ ret.i = CeilLog2(Len(call.args.array))
          /\ Len(ret.res) = 2 ^ ret.i
          /\ \A j \in 1..Len(ret.res) :
                ret.res[j] = IF j <= Len(call.args.array) THEN call.args.array[j] ELSE Zero
          /\ Len(call.args.array) = 2 ^ ret.i => ret.res = call.args.array

\* extend_array has padded a sequence of length 3 with one zero to length 4
C3_Witness ==
    /\ call.fn \in {"FFT::extend_array", "DFT::extend_array"}
    /\ Len(call.args.array) = 3
    /\ ret = OkPair(2, call.args.array \o <<Zero>>)

\* C4: 2-adicity boundary.  root_pow2m(i) returns Err exactly when i > k and Ok
\* when i <= k; fft, ifft, dft and idft of a sequence of length n return Err,
\* the one extend_array returns before any transform is computed, exactly when
\* the smallest i with 2^i >= n exceeds k, and Ok otherwise; for p = 5 (k = 2)
\* length 4 succeeds and length 5 fails.
C4_TwoAdicityBoundary ==
    /\ call.fn = "root_pow2m"
          => ret.tag = IF call.args.a_usize > fp.k THEN "Err" ELSE "Ok"
    /\ call.fn \in {"fft", "ifft", "dft", "idft"}
          => /\ ret.tag = IF CeilLog2(Len(call.args.array)) > fp.k THEN "Err" ELSE "Ok"
             /\ ret.tag = "Err" => ret = Err(ErrTwoAdicity)
             /\ fp.p = <<5>> => (fp.k = 2 /\ (ret.tag = "Err" <=> Len(call.args.array) > 4))

\* for p = 5, fft of a sequence of length 5 has returned the error
C4_Witness ==
    /\ fp.tag = "Ok" /\ fp.p = <<5>>
    /\ call.fn = "fft"
    /\ Len(call.args.array) = 5
    /\ ret = Err(ErrTwoAdicity)

\* C5: Root correctness.  In a field built from a prime p, for 0 <= i <= k,
\* w = root_pow2m(i) satisfies w^(2^i) = 1 (mod p) and w^(2^j) # 1 (mod p) for
\* every j < i.
C5_RootOfUnity ==
    (PrimeField /\ call.fn = "root_pow2m" /\ call.args.a_usize <= fp.k)
       => /\ ret.tag = "Ok"
          /\ PowPow2(fp.p, ret.val, call.args.a_usize) = One
          /\ \A j \in 0..(call.args.a_usize - 1) : PowPow2(fp.p, ret.val, j) # One

\* C6: Fp::new(p) returns an error for every p that is not prime, prime powers
\* such as 4, 8, 9, 25 and 27 too; it returns a field context only when p is
\* prime.  (Stated of the calls that return: whether new returns at all is C9.)
C6_NonPrimesRejected ==
    (call.fn = "new" /\ call.args.p \notin Primes) => ret.tag \notin {"Ok"}

\* C7: Range of field arithmetic.  In every constructed field, for all a and b
\* (0 and values >= p too), add, sub, neg and mul return r with 0 <= r < p;
\* neg(a) for a congruent to 0 mod p returns 0.
C7_ResultsInRange ==
    /\ call.fn \in {"add", "sub", "neg", "mul"}
          => ret.tag = "val" /\ BigLt(ret.val, fp.p)
    /\ (call.fn = "neg" /\ BigMod(call.args.a, fp.p) = Zero)
          => ret = Value(Zero)

\* C8: Overflow safety.  For every prime p of 64 bits and all 64-bit a and b,
\* mul(a, b) = (a * b) mod p and add(a, b) = (a + b) mod p over the unbounded
\* integers, and neither a * b in _mul nor a + b in _add, taken of the
\* normalized operands, exceeds the 64-bit range.
C8_OverflowSafe ==
    /\ (PrimeField /\ call.fn = "mul")
          => /\ ret = Value(BigMod(BigMul(call.args.a, call.args.b), fp.p))
             /\ Fits64(BigMul(BigMod(call.args.a, fp.p), BigMod(call.args.b, fp.p)))
    /\ (PrimeField /\ call.fn = "add")
          => /\ ret = Value(BigMod(BigAdd(call.args.a, call.args.b), fp.p))
             /\ Fits64(BigAdd(BigMod(call.args.a, fp.p), BigMod(call.args.b, fp.p)))

\* C9: Fp::new never panics: for every p, 0, 1 and 2 too, it returns Ok(context)
\* or an Err value.
C9_NewReturns ==
    call.fn = "new" => ret.tag \in {"Ok", "Err"}

\* C10: Inverse correctness.  In a field built from a prime p, for every a not
\* congruent to 0 modulo p, inv(a) = a^(p-2) mod p and mul(a, inv(a)) = 1.
C10_Inverse ==
    (PrimeField /\ call.fn = "inv" /\ BigMod(call.args.a, fp.p) # Zero)
       => /\ ret = Value(ExactPow(fp.p, BigMod(call.args.a, fp.p), BigSub(fp.p, Two), One))
          /\ mul(fp, call.args.a, ret.val) = One

\* what the transform named fn returns for X
Transformed(fn, self, X) ==
    CASE fn = "fft" -> fft(self, X)
      [] fn = "ifft" -> ifft(self, X)
      [] fn = "dft" -> dft(self, X)
      [] fn = "idft" -> idft(self, X)

\* C11: Transform outputs are normalized.  In every constructed field, for
\* every input of length n <= 2^k (length 1 and elements >= p too), fft, ifft,
\* dft and idft return a sequence whose every element is in [0, p), and which
\* is the transform of the input reduced mod p.
C11_OutputsNormalized ==
    (/\ fp.tag = "Ok"
     /\ call.fn \in {"fft", "ifft", "dft", "idft"}
     /\ CeilLog2(Len(call.args.array)) <= fp.k)
       => /\ ret.tag = "Ok"
          /\ InRange(ret.vec, fp.p)
          /\ ret = Transformed(call.fn, fp, collect(Reduced(call.args.array, fp.p)))

\* the prime factors of n, 2 <= n < 65537^2, in exact arithmetic: the primes up
\* to 2^16 that divide n, and what is left of n once they are divided out
TrialBound(n) == IF Len(n) <= 1 THEN ToNat(n) ELSE 65536

SmallPrimeFactors(n) ==
    {d \in 2..TrialBound(n) : BigMod(n, FromNat(d)) = Zero /\ PrimeNat(d)}

RECURSIVE StripAll(_, _)
StripAll(n, d) == IF BigMod(n, d) = Zero THEN StripAll(BigDiv(n, d), d) ELSE n

RECURSIVE Cofactor(_, _)
CofactorStep(n, S, q) == Cofactor(StripAll(n, FromNat(q)), S \ {q})

Cofactor(n, S) == IF S = {} THEN n ELSE CofactorStep(n, S, CHOOSE q \in S : TRUE)

PrimeFactors(n) ==
    {FromNat(d) : d \in SmallPrimeFactors(n)}
        \cup {c \in {Cofactor(n, SmallPrimeFactors(n))} : c # One}

\* x^((p-1)/q) # 1 (mod p) for every prime factor q of p - 1
IsGenerator(p, x) ==
    \A q \in PrimeFactors(BigSub(p, One)) :
        ExactPow(p, x, BigDiv(BigSub(p, One), q), One) # One

\* C12: Constructed-context invariant.  For every prime p for which Fp::new(p)
\* returns Ok, root is the smallest x in [1, p) with x^((p-1)/q) # 1 (mod p) for
\* every prime factor q of p - 1 (5 -> 2, 7 -> 3, 11 -> 2), rinv * root = 1
\* (mod p), and 2^k * m = p - 1 with m odd.
C12_ContextInvariant ==
    (call.fn = "new" /\ ret.tag = "Ok" /\ call.args.p \in Primes)
       => /\ fp.p = call.args.p
          /\ BigLe(One, fp.root) /\ BigLt(fp.root, fp.p)
          /\ IsGenerator(fp.p, fp.root)
          /\ \A x \in 1..(ToNat(fp.root) - 1) : ~IsGenerator(fp.p, FromNat(x))
          /\ fp.p = <<5>> => fp.root = <<2>>
          /\ fp.p = <<7>> => fp.root = <<3>>
          /\ fp.p = <<11>> => fp.root = <<2>>
          /\ BigMod(BigMul(fp.rinv, fp.root), fp.p) = One
          /\ BigMul(BigPow2(fp.k), fp.m) = BigSub(fp.p, One)
          /\ Dig(fp.m, 1) % 2 = 1

=============================================================================
